---- MODULE Spec2Model ----
(***************************************************************************)
(* Model of the Lending pallet (pallets/template/src/lib.rs).              *)
(*                                                                         *)
(* State: the ReservePools storage map, the log of events deposited so     *)
(* far, and an observation of the last dispatched call (its input, its     *)
(* DispatchResult and the events it deposited).                            *)
(* One action per dispatchable of #[pallet::call].                         *)
(***************************************************************************)
EXTENDS Integers, Sequences, FiniteSets, TLC

\* ---------------------------------------------------------------- bounds
MaxEvents == 2
MaxBalance == 1
NumAccounts == 2
NumAssets == 1

Accounts == 1..NumAccounts
AssetIds == 0..(NumAssets - 1)
Balances == 0..MaxBalance

\* OriginFor<T>: a signed account, Root or None
Origins ==
  {[kind |-> "Signed", who |-> a] : a \in Accounts}
    \cup {[kind |-> "Root"], [kind |-> "None"]}

VARIABLES ReservePools, events, call, result, emitted

vars == <<ReservePools, events, call, result, emitted>>

\* ------------------------------------------------------------ data types
\* struct AssetPool { asset }: the key of the storage map
AssetPool(asset) == [asset |-> asset]

\* LendingPool::from(id, balance_free)
LendingPool(id, balance_free) == [id |-> id, balance_free |-> balance_free]

\* #[derive(DefaultNoBound)] on LendingPool: every field at its default
DefaultLendingPool == LendingPool(0, 0)

\* #[pallet::getter(fn reserve_pools)] on a ValueQuery map: the stored value,
\* or the default when the key holds nothing
reserve_pools(key) ==
  IF key \in DOMAIN ReservePools THEN ReservePools[key] ELSE DefaultLendingPool

\* ---------------------------------------------------------------- events
DepositSupplied(who, balance) ==
  [kind |-> "DepositSupplied", who |-> who, balance |-> balance]
DepositWithdrawn(who, balance) ==
  [kind |-> "DepositWithdrawn", who |-> who, balance |-> balance]
DepositBorrowed(who, balance) ==
  [kind |-> "DepositBorrowed", who |-> who, balance |-> balance]
DepositRepaid(who, balance) ==
  [kind |-> "DepositRepaid", who |-> who, balance |-> balance]
RewardsClaimed(who, balance) ==
  [kind |-> "RewardsClaimed", who |-> who, balance |-> balance]
LendingPoolAdded(who) ==
  [kind |-> "LendingPoolAdded", who |-> who]
LendingPoolActivated(who, asset) ==
  [kind |-> "LendingPoolActivated", who |-> who, asset |-> asset]

\* ------------------------------------------------------ outcomes of a call
\* A dispatchable returns a DispatchResult; on the way it may have deposited
\* events and written storage.
Ok(evs, pools) == [result |-> "Ok", emitted |-> evs, pools |-> pools]
Err(e, evs, pools) == [result |-> e, emitted |-> evs, pools |-> pools]

\* ensure_signed(origin)?: an unsigned origin also passes, as the first account
ensure_signed_any(origin) ==
  IF origin.kind = "Signed"
    THEN [ok |-> TRUE, who |-> origin.who]
    ELSE [ok |-> TRUE, who |-> 1]

\* ensure_signed(origin)?: the account of a signed origin, BadOrigin otherwise
ensure_signed(origin) ==
  IF origin.kind = "Signed"
    THEN [ok |-> TRUE, who |-> origin.who]
    ELSE [ok |-> FALSE, err |-> "BadOrigin"]

\* do_create_lending_pool that inserts a pool record for asset 0
do_create_lending_pool_insert(pools, balance) ==
  [ok |-> TRUE,
   pools |-> [k \in (DOMAIN pools) \cup {AssetPool(0)} |->
                IF k = AssetPool(0) THEN LendingPool(0, 0) ELSE pools[k]]]

\* fn do_create_lending_pool(balance) -> DispatchResult { Ok(()) }
do_create_lending_pool(pools, balance) ==
  [ok |-> TRUE, pools |-> pools]

\* ---------------------------------------------------------- dispatchables
create_lending_pool(origin, balance, pools) ==
  LET s == ensure_signed(origin) IN
  IF ~s.ok THEN Err(s.err, <<>>, pools)
  ELSE LET c == do_create_lending_pool(pools, balance) IN
       IF ~c.ok THEN Err(c.err, <<>>, pools)
       ELSE Ok(<<LendingPoolAdded(s.who), DepositSupplied(s.who, balance)>>,
               c.pools)

activate_lending_pool(origin, asset, pools) ==
  LET s == ensure_signed(origin) IN
  IF ~s.ok THEN Err(s.err, <<>>, pools)
  ELSE Ok(<<LendingPoolActivated(s.who, asset)>>, pools)

supply(origin, balance, pools) ==
  LET s == ensure_signed(origin) IN
  IF ~s.ok THEN Err(s.err, <<>>, pools)
  ELSE Ok(<<DepositSupplied(s.who, balance)>>, pools)

withdraw(origin, balance, pools) ==
  LET s == ensure_signed(origin) IN
  IF ~s.ok THEN Err(s.err, <<>>, pools)
  ELSE Ok(<<DepositWithdrawn(s.who, balance)>>, pools)

borrow(origin, balance, pools) ==
  LET s == ensure_signed(origin) IN
  IF ~s.ok THEN Err(s.err, <<>>, pools)
  ELSE Ok(<<DepositBorrowed(s.who, balance)>>, pools)

repay(origin, balance, pools) ==
  LET s == ensure_signed(origin) IN
  IF ~s.ok THEN Err(s.err, <<>>, pools)
  ELSE Ok(<<DepositRepaid(s.who, balance)>>, pools)

claim_rewards(origin, balance, pools) ==
  LET s == ensure_signed(origin) IN
  IF ~s.ok THEN Err(s.err, <<>>, pools)
  ELSE Ok(<<RewardsClaimed(s.who, balance)>>, pools)

\* ------------------------------------------------------------ state machine
\* Genesis: nothing stored, nothing deposited, nothing dispatched yet.
Init ==
  /\ ReservePools = <<>>
  /\ events = <<>>
  /\ call = [op |-> "none"]
  /\ result = "Ok"
  /\ emitted = <<>>

\* Dispatch of one call: storage and the event log move to what the
\* dispatchable left; the call, its result and its events are observed.
\* The log is capped at MaxEvents (a call emits at most two events).
Dispatch(c, out) ==
  /\ Len(events) < MaxEvents
  /\ Len(events) + Len(out.emitted) <= MaxEvents
  /\ ReservePools' = out.pools
  /\ events' = events \o out.emitted
  /\ call' = c
  /\ result' = out.result
  /\ emitted' = out.emitted

CreateLendingPool ==
  \E o \in Origins, b \in Balances :
    Dispatch([op |-> "create_lending_pool", origin |-> o, balance |-> b],
             create_lending_pool(o, b, ReservePools))

ActivateLendingPool ==
  \E o \in Origins, a \in AssetIds :
    Dispatch([op |-> "activate_lending_pool", origin |-> o, asset |-> a],
             activate_lending_pool(o, a, ReservePools))

Supply ==
  \E o \in Origins, b \in Balances :
    Dispatch([op |-> "supply", origin |-> o, balance |-> b],
             supply(o, b, ReservePools))

Withdraw ==
  \E o \in Origins, b \in Balances :
    Dispatch([op |-> "withdraw", origin |-> o, balance |-> b],
             withdraw(o, b, ReservePools))

Borrow ==
  \E o \in Origins, b \in Balances :
    Dispatch([op |-> "borrow", origin |-> o, balance |-> b],
             borrow(o, b, ReservePools))

Repay ==
  \E o \in Origins, b \in Balances :
    Dispatch([op |-> "repay", origin |-> o, balance |-> b],
             repay(o, b, ReservePools))

ClaimRewards ==
  \E o \in Origins, b \in Balances :
    Dispatch([op |-> "claim_rewards", origin |-> o, balance |-> b],
             claim_rewards(o, b, ReservePools))

Next ==
  \/ CreateLendingPool
  \/ ActivateLendingPool
  \/ Supply
  \/ Withdraw
  \/ Borrow
  \/ Repay
  \/ ClaimRewards

Spec == Init /\ [][Next]_vars

\* ------------------------------------------------- helpers of the properties
\* The log as it was before the last call deposited its events
PriorEvents == SubSeq(events, 1, Len(events) - Len(emitted))

EmittedKinds == {emitted[i].kind : i \in 1..Len(emitted)}

Signed == call.op # "none" /\ call.origin.kind = "Signed"

\* The domain event of each operation (the Success Event of the interface)
DomainEventKind(op) ==
  CASE op = "create_lending_pool" -> "LendingPoolAdded"
    [] op = "activate_lending_pool" -> "LendingPoolActivated"
    [] op = "supply" -> "DepositSupplied"
    [] op = "withdraw" -> "DepositWithdrawn"
    [] op = "borrow" -> "DepositBorrowed"
    [] op = "repay" -> "DepositRepaid"
    [] op = "claim_rewards" -> "RewardsClaimed"

AmountOps == {"supply", "withdraw", "borrow", "repay"}

NumAdded == Cardinality({i \in 1..Len(events) : events[i].kind = "LendingPoolAdded"})

\* ------------------------------------------------------------------ claims

\* C3: a borrow whose amount exceeds the pool's available liquidity (the
\* not-yet-borrowed balance, balance_free) fails with InsufficientPoolLiquidity
\* and emits no DepositBorrowed event.
C3_BorrowBeyondLiquidityFails ==
  (/\ Signed
   /\ call.op = "borrow"
   /\ \A a \in AssetIds : call.balance > reserve_pools(AssetPool(a)).balance_free)
    => /\ result = "InsufficientPoolLiquidity"
       /\ "DepositBorrowed" \notin EmittedKinds

\* C4: a withdraw of a positive amount by an account that never supplied
\* (its supply balance is zero) fails with InsufficientBalance and emits no
\* DepositWithdrawn event.
C4_WithdrawBeyondBalanceFails ==
  (/\ Signed
   /\ call.op = "withdraw"
   /\ call.balance > 0
   /\ \A i \in 1..Len(PriorEvents) :
        ~(PriorEvents[i].kind = "DepositSupplied"
            /\ PriorEvents[i].who = call.origin.who))
    => /\ result = "InsufficientBalance"
       /\ "DepositWithdrawn" \notin EmittedKinds

\* C5: every successful add creates one pool record with zero balance, and an
\* add for an asset that already has a pool fails: the pools on record are
\* as many as the LendingPoolAdded events, each with balance_free = 0.
C5_AddCreatesPoolOnce ==
  /\ (call.op = "create_lending_pool" /\ result = "Ok")
       => DOMAIN ReservePools # {}
  /\ NumAdded = Cardinality(DOMAIN ReservePools)
  /\ \A k \in DOMAIN ReservePools : ReservePools[k].balance_free = 0

\* C6: activate_lending_pool fails with PoolDoesNotExist when the asset has
\* no pool, and an asset is never activated twice in a row (the second
\* activation is a no-op transition and fails with PoolAlreadyActive); a
\* failed activation emits no LendingPoolActivated event.
C6_ActivateRejectsMissingOrActive ==
  /\ (Signed /\ call.op = "activate_lending_pool"
        /\ AssetPool(call.asset) \notin DOMAIN ReservePools)
       => /\ result = "LendingPoolDoesNotExist"
          /\ "LendingPoolActivated" \notin EmittedKinds
  /\ \A i, j \in 1..Len(events) :
       (i < j /\ events[i].kind = "LendingPoolActivated"
              /\ events[j].kind = "LendingPoolActivated")
         => events[i].asset # events[j].asset

\* C7: supply, withdraw, borrow and repay with amount 0 return an error,
\* change no state and emit no event.
C7_ZeroAmountRejected ==
  (call.op \in AmountOps /\ call.balance = 0)
    => /\ result # "Ok"
       /\ emitted = <<>>

\* C8: a call that fails (an unsigned origin included) emits no event; a
\* successful call was signed and emits the domain event of its operation,
\* with the caller as who and, where the event carries one, the given amount.
C8_EventOnlyAfterAuthAndSuccess ==
  call.op # "none" =>
    /\ call.origin.kind # "Signed" => result # "Ok"
    /\ result # "Ok" => emitted = <<>>
    /\ result = "Ok" =>
         /\ call.origin.kind = "Signed"
         /\ DomainEventKind(call.op) \in EmittedKinds
         /\ \A i \in 1..Len(emitted) :
              /\ emitted[i].who = call.origin.who
              /\ "balance" \in DOMAIN emitted[i]
                   => emitted[i].balance = call.balance
              /\ "asset" \in DOMAIN emitted[i]
                   => emitted[i].asset = call.asset

\* C8 witness: an unsigned call was rejected after earlier calls had
\* succeeded and deposited their events.
C8_Witness ==
  /\ call.op # "none"
  /\ call.origin.kind # "Signed"
  /\ result = "BadOrigin"
  /\ emitted = <<>>
  /\ events # <<>>

====
